---- MODULE Spec2Model ----
\* State-machine model of the eduvocs search store (src/src/lib/config.js):
\* the svelte store `db`, the flexsearch document index it queries, the
\* browser's localStorage, and the exported operations that change them.
EXTENDS Integers, Sequences, FiniteSets, TLC

VARIABLES
    db,            \* the value of the writable store `db`
    localStorage,  \* the browser's durable storage: key -> string
    vocs,          \* the parsed dataset the loader serves (the index's store once imported)
    call           \* the last exported operation that ran: its arguments and outcome

vars == <<db, localStorage, vocs, call>>

----------------------------------------------------------------------------
\* Sequence helpers (JavaScript array methods)

Range(s) == {s[i] : i \in 1..Len(s)}

\* Array.prototype.includes
includes(s, v) == \E i \in 1..Len(s) : s[i] = v

NoDuplicates(s) == \A i, j \in 1..Len(s) : s[i] = s[j] => i = j

RECURSIVE flat(_)
\* Array.prototype.flat on an array of arrays
flat(ss) == IF Len(ss) = 0 THEN <<>> ELSE Head(ss) \o flat(Tail(ss))

\* All duplicate-free sequences over the set S (ordered subsets of S)
RECURSIVE Arrangements(_)
Arrangements(S) ==
    IF S = {} THEN {<<>>}
    ELSE {<<>>} \cup UNION {{<<x>> \o t : t \in Arrangements(S \ {x})} : x \in S}

----------------------------------------------------------------------------
\* Configuration

filterKeys == <<"about", "educationalLevel", "P126">>

\* the fields search() asks the index for
searchFields == <<"id", "title", "about", "P126">>

VocabularyMarker == "http://www.wikidata.org/entity/Q1469824"

resultsPerPage == 10

----------------------------------------------------------------------------
\* Documents of the dataset. `match` is the posting relation of the field
\* index: the query terms that hit the document in each searched field.

docA == [id |-> "https://w3id.org/kim/a", name |-> "Bildung",
         type |-> <<VocabularyMarker>>,
         about |-> <<"A1">>, educationalLevel |-> <<"E1">>, P126 |-> <<>>,
         tag |-> <<"A1", "E1">>,
         match |-> [id |-> {}, title |-> {"bild"}, about |-> {}, P126 |-> {}]]

docB == [id |-> "https://w3id.org/kim/b", name |-> "Schule",
         type |-> <<"http://www.w3.org/2004/02/skos/core#ConceptScheme", VocabularyMarker>>,
         about |-> <<"A1", "A2">>, educationalLevel |-> <<>>, P126 |-> <<"P1">>,
         tag |-> <<"A1", "A2", "P1">>,
         match |-> [id |-> {}, title |-> {}, about |-> {"bild"}, P126 |-> {}]]

docC == [id |-> "https://w3id.org/kim/c", name |-> "Begriff",
         type |-> <<"http://www.w3.org/2004/02/skos/core#Concept">>,
         about |-> <<"A2">>, educationalLevel |-> <<"E1">>, P126 |-> <<>>,
         tag |-> <<"A2", "E1">>,
         match |-> [id |-> {"bild"}, title |-> {"bild"}, about |-> {"bild"}, P126 |-> {}]]

\* The datasets the loader may serve: documents with unique ids, in some order
Datasets == {<<docA, docB, docC>>, <<docC, docB, docA>>, <<docC, docA>>}

\* Query terms a user may type ("" is the cleared input, "zzz" hits nothing)
Queries == {"", "bild", "zzz"}

\* Selectable values per facet key
FacetValues == [about |-> {"A1", "A2"}, educationalLevel |-> {"E1"}, P126 |-> {"P1"}]

\* The key of db that toggleSelected/resetSelected are called with
SelectionKeys == {"selectedVocabs"}

\* Ids a user may toggle
SelectableIds == {docA.id, docB.id}

\* Bound on how far updatePagination is followed away from page 0
MaxPage == 1

\* Bounds on an arbitrary answer of index.search: its groups, the hits of a group
MaxGroups == 2

MaxHits == 2

\* Bounds on the pagination of a long result list: the vocabularies of the
\* dataset, and how far updatePagination is followed away from page 0
MaxResults == 21

MaxTurns == 3

\* Bound on the length of an arbitrary result list handed to sort
MaxSortLen == 4

----------------------------------------------------------------------------
\* JSON.stringify, as the characters it writes

quote(s) == "\"" \o s \o "\""

RECURSIVE joinQuoted(_)
joinQuoted(arr) ==
    IF Len(arr) = 0 THEN ""
    ELSE IF Len(arr) = 1 THEN quote(arr[1])
    ELSE quote(arr[1]) \o "," \o joinQuoted(Tail(arr))

\* JSON.stringify of an array of strings
stringifyArray(arr) == "[" \o joinQuoted(arr) \o "]"

\* JSON.stringify of the object { [dbKey]: arr }
stringifyUpdated(dbKey, arr) == "{" \o quote(dbKey) \o ":" \o stringifyArray(arr) \o "}"

\* the namespaced storage key `eduvocs:${dbKey}`
storageKey(dbKey) == "eduvocs:" \o dbKey

\* localStorage.setItem
setItem(ls, k, v) == [x \in DOMAIN ls \cup {k} |-> IF x = k THEN v ELSE ls[x]]

----------------------------------------------------------------------------
\* Store construction

initFilters == [about |-> <<>>, educationalLevel |-> <<>>, P126 |-> <<>>]

NoIndex == [built |-> FALSE, store |-> <<>>]

InitDb ==
    [resultsPerPage |-> resultsPerPage,
     activePage |-> 1,
     query |-> "",
     results |-> <<>>,
     filters |-> [about |-> {}, educationalLevel |-> {}, P126 |-> {}],
     index |-> NoIndex,
     sort |-> [key |-> "", order |-> "asc"],
     initialized |-> FALSE,
     selectedFilters |-> initFilters,
     selectedVocabs |-> <<>>]

\* No call yet. before: db[key] when a selection call started; twice: the call
\* is a toggleSelected that returned, made right after a toggleSelected of the
\* same key and value that returned, and origin is db[key] before that first
\* one; invoked, term, tag: the index.search call made; grouped: the ids of
\* the grouped hits it answered with
NoCall == [op |-> "", key |-> "", val |-> "", threw |-> "", before |-> <<>>,
           twice |-> FALSE, origin |-> <<>>,
           invoked |-> FALSE, term |-> "", tag |-> <<>>, grouped |-> <<>>]

Init ==
    /\ db = InitDb
    /\ localStorage = <<>>
    /\ vocs \in Datasets
    /\ call = NoCall

----------------------------------------------------------------------------
\* Selection state: toggleSelected, resetSelected

\* toggled with the filter's test the wrong way round: it keeps val
toggledKeepingVal(list, val) ==
    IF includes(list, val)
    THEN SelectSeq(list, LAMBDA v : v = val)
    ELSE Append(list, val)

\* toggled without the includes test: it always appends
toggledAlwaysAppending(list, val) == Append(list, val)

\* The array toggleSelected computes for db[dbKey]: val filtered out when it
\* is included, appended otherwise
toggled(list, val) ==
    IF includes(list, val)
    THEN SelectSeq(list, LAMBDA v : v # val)
    ELSE Append(list, val)

\* persisted writing only the first id of the updated array
persistedFirstOnly(dbKey, list) ==
    stringifyUpdated(dbKey, IF Len(list) = 0 THEN list ELSE <<list[1]>>)

\* The string written to localStorage for the updated array
persisted(dbKey, list) == stringifyUpdated(dbKey, list)

\* The updater passed to db.update by toggleSelected/resetSelected. setItem
\* runs inside the updater, before its return statement: when it throws
\* (ok = FALSE) the updater returns nothing, the store keeps its value and the
\* exception leaves the exported function.
writeSelected(op, dbKey, val, list, ok) ==
    /\ LET again == /\ ok /\ op = "toggleSelected"
                     /\ call.op = op /\ call.threw = ""
                     /\ call.key = dbKey /\ call.val = val
       IN call' = [NoCall EXCEPT !.op = op, !.key = dbKey, !.val = val,
                                 !.before = db[dbKey],
                                 !.threw = IF ok THEN "" ELSE "QuotaExceededError",
                                 !.twice = again,
                                 !.origin = IF again THEN call.before ELSE <<>>]
    /\ IF ok
       THEN /\ localStorage' = setItem(localStorage, storageKey(dbKey), persisted(dbKey, list))
            /\ db' = [db EXCEPT ![dbKey] = list]
       ELSE UNCHANGED <<db, localStorage>>
    /\ UNCHANGED vocs

toggleSelected(dbKey, val, ok) ==
    writeSelected("toggleSelected", dbKey, val, toggled(db[dbKey], val), ok)

resetSelected(dbKey, ok) ==
    writeSelected("resetSelected", dbKey, "", <<>>, ok)

----------------------------------------------------------------------------
\* The document index (flexsearch Document) behind db.index

\* e carries at least one of the tags
hasAnyTag(e, tags) == \E i \in 1..Len(tags) : includes(e.tag, tags[i])

\* enrich: true pairs every hit id with its stored document
enriched(docs) == [i \in 1..Len(docs) |-> [id |-> docs[i].id, doc |-> docs[i]]]

\* The hits of one searched field: the stored documents the term hits in that
\* field, narrowed to the documents carrying any of the tags when tags are given
fieldHits(store, field, term, tags) ==
    SelectSeq(store, LAMBDA e : /\ term \in e.match[field]
                                /\ (Len(tags) = 0 \/ hasAnyTag(e, tags)))

\* The hits of one tag: the stored documents carrying it
tagHits(store, t) == SelectSeq(store, LAMBDA e : includes(e.tag, t))

\* Groups without hits are left out of the answer
nonEmptyGroups(groups) == SelectSeq(groups, LAMBDA g : Len(g.result) > 0)

\* index.search(term, {index: searchFields, enrich: true, tag: tags}): grouped
\* hits, one group per searched field; with no term, one group per tag
indexSearch(store, term, tags) ==
    IF term = ""
    THEN nonEmptyGroups([i \in 1..Len(tags) |->
            [field |-> tags[i], result |-> enriched(tagHits(store, tags[i]))]])
    ELSE nonEmptyGroups([i \in 1..Len(searchFields) |->
            [field |-> searchFields[i],
             result |-> enriched(fieldHits(store, searchFields[i], term, tags))]])

----------------------------------------------------------------------------
\* Query engine: what each exported function does to the store value d

\* What a call did besides changing the store: the exception it threw and the
\* index.search call it made
ran(d) == [db |-> d, threw |-> "", invoked |-> FALSE, term |-> "", tag |-> <<>>,
           grouped |-> <<>>]

thrown(d, e) == [ran(d) EXCEPT !.threw = e]

\* updateResults leaving the page where it is
updateResultsKeepingPage(d, results) == [d EXCEPT !.results = results]

\* updateResults dropping the selected vocabularies with the page
updateResultsDroppingSelected(d, results) ==
    [d EXCEPT !.results = results, !.activePage = 0, !.selectedVocabs = <<>>]

updateResults(d, results) == [d EXCEPT !.results = results, !.activePage = 0]

\* vocabularies without the type test: every stored document
vocabulariesUnfiltered(store) == store

\* Object.values(index.store).filter(e => e.type.includes(marker)); the ids are
\* IRIs, so Object.values lists the store in insertion order
vocabularies(store) == SelectSeq(store, LAMBDA e : includes(e.type, VocabularyMarker))

\* fillResults; index.store is undefined until createIndex has set db.index
fillResultsOn(d) ==
    IF d.index.built
    THEN ran(updateResults(d, vocabularies(d.index.store)))
    ELSE thrown(d, "TypeError")

\* Tags taking the values of the first key only
TagsOfFirstKey(selectedFilters) == selectedFilters[filterKeys[1]]

\* Object.values(selectedFilters).flat(): the keys keep the order of filterKeys
Tags(selectedFilters) ==
    flat([i \in 1..Len(filterKeys) |-> selectedFilters[filterKeys[i]]])

\* unfiltered with the test of the term negated
unfilteredOnTerm(searchTerm, tags) == searchTerm # "" /\ Len(tags) = 0

\* the condition of search's early return to fillResults
unfiltered(searchTerm, tags) == searchTerm = "" /\ Len(tags) = 0

\* mapSet moving a key seen again to the end
mapSetMovingLast(entries, item) ==
    Append(SelectSeq(entries, LAMBDA x : x.id # item.id), item)

\* new Map(entries): a key seen again keeps its first position and takes the
\* later value
mapSet(entries, item) ==
    IF \E i \in 1..Len(entries) : entries[i].id = item.id
    THEN [i \in 1..Len(entries) |-> IF entries[i].id = item.id THEN item ELSE entries[i]]
    ELSE Append(entries, item)

RECURSIVE mapOf(_)
mapOf(items) ==
    IF Len(items) = 0 THEN <<>>
    ELSE mapSet(mapOf(SubSeq(items, 1, Len(items) - 1)), items[Len(items)])

\* groupedResults.map(e => e.result).flat()
flatHits(groupedResults) ==
    flat([i \in 1..Len(groupedResults) |-> groupedResults[i].result])

\* resultSet.map(r => r.doc), resultSet the values of the Map keyed by id
searchResults(groupedResults) ==
    LET resultSet == mapOf(flatHits(groupedResults))
    IN [i \in 1..Len(resultSet) |-> resultSet[i].doc]

\* listed falling back to the unfiltered list when nothing was found
listedOrAll(d, results) ==
    IF Len(results) = 0 THEN vocabularies(d.index.store) ELSE results

\* the list search hands to updateResults; the flattened selection is an
\* array, which is always truthy
listed(d, results) == IF Len(results) = 0 /\ TRUE THEN <<>> ELSE results

\* the ids of grouped hits, group by group
groupedIds(groupedResults) ==
    [i \in 1..Len(groupedResults) |->
        [j \in 1..Len(groupedResults[i].result) |-> groupedResults[i].result[j].id]]

\* search from the answer of index.search on: merge, deduplicate, resolve the
\* documents and update the results
searchAnswered(d, searchTerm, tags, groupedResults) ==
    LET results == searchResults(groupedResults)
    IN [db |-> updateResults(d, listed(d, results)), threw |-> "",
        invoked |-> TRUE, term |-> searchTerm, tag |-> tags,
        grouped |-> groupedIds(groupedResults)]

\* search; db.index.search is undefined until createIndex has set db.index
searchOn(d) ==
    LET searchTerm == d.query
        tags == Tags(d.selectedFilters)
    IN IF unfiltered(searchTerm, tags) THEN fillResultsOn(d)
       ELSE IF ~d.index.built THEN thrown(d, "TypeError")
       ELSE searchAnswered(d, searchTerm, tags,
                           indexSearch(d.index.store, searchTerm, tags))

\* the updater appending val whether or not it is selected
selectFilterAlwaysAppending(selectedFilters, key, val) ==
    [selectedFilters EXCEPT ![key] = Append(@, val)]

\* the updater of handleFilterSelect
selectFilter(selectedFilters, key, val) ==
    IF includes(selectedFilters[key], val)
    THEN [selectedFilters EXCEPT ![key] = SelectSeq(@, LAMBDA e : e # val)]
    ELSE [selectedFilters EXCEPT ![key] = Append(@, val)]

\* createFilterOptions: the distinct values of every filter key in the store
createFilterOptions(store) ==
    [k \in Range(filterKeys) |-> UNION {Range(store[i][k]) : i \in 1..Len(store)}]

\* An exported function of the query engine returns: the store takes the
\* value it left and the call is recorded
returns(op, key, val, out) ==
    /\ db' = out.db
    /\ call' = [NoCall EXCEPT !.op = op, !.key = key, !.val = val,
                              !.threw = out.threw, !.invoked = out.invoked,
                              !.term = out.term, !.tag = out.tag,
                              !.grouped = out.grouped]
    /\ UNCHANGED <<localStorage, vocs>>

\* the search input is bound to db.query
SetQuery ==
    \E q \in Queries :
        /\ q # db.query
        /\ returns("setQuery", "", q, ran([db EXCEPT !.query = q]))

UpdatePagination ==
    \E direction \in {-1, 1} :
        /\ db.activePage + direction \in -MaxPage..MaxPage
        /\ returns("updatePagination", "", "",
                   ran([db EXCEPT !.activePage = db.activePage + direction]))

\* resetFilters leaving the sort as it is
ResetFiltersKeepingSort ==
    returns("resetFilters", "", "",
            fillResultsOn([db EXCEPT !.query = "", !.selectedFilters = initFilters]))

ResetFilters ==
    returns("resetFilters", "", "",
            fillResultsOn([db EXCEPT !.query = "",
                                     !.sort = [key |-> "", order |-> "asc"],
                                     !.selectedFilters = initFilters]))

FillResults == returns("fillResults", "", "", fillResultsOn(db))

Search == returns("search", "", "", searchOn(db))

HandleFilterSelect ==
    \E key \in Range(filterKeys) : \E val \in FacetValues[key] :
        returns("handleFilterSelect", key, val,
                searchOn([db EXCEPT !.selectedFilters = selectFilter(@, key, val)]))

\* createIndex: the store changes only after its last await, in one step
CreateIndex ==
    returns("createIndex", "", "",
            fillResultsOn([db EXCEPT !.filters = createFilterOptions(vocs),
                                     !.index = [built |-> TRUE, store |-> vocs],
                                     !.initialized = TRUE]))

ToggleSelected ==
    \E dbKey \in SelectionKeys, val \in SelectableIds, ok \in BOOLEAN :
        toggleSelected(dbKey, val, ok)

ResetSelected ==
    \E dbKey \in SelectionKeys, ok \in BOOLEAN : resetSelected(dbKey, ok)

----------------------------------------------------------------------------
\* search on an arbitrary answer of the index: index.search has returned
\* grouped hits over the stored ids, in any order and with any repetition, and
\* search goes on from there

GroupedStore == <<docA, docB, docC>>

HitLists == UNION {[1..n -> {e.id : e \in Range(GroupedStore)}] : n \in 0..MaxHits}

Groupings == UNION {[1..n -> HitLists] : n \in 0..MaxGroups}

\* the stored document of an id
docOf(store, id) == CHOOSE e \in Range(store) : e.id = id

\* the enriched grouped hits with the given ids
answerOf(store, grouped) ==
    [i \in 1..Len(grouped) |->
        [field |-> i,
         result |-> [j \in 1..Len(grouped[i]) |->
                        [id |-> grouped[i][j], doc |-> docOf(store, grouped[i][j])]]]]

InitGrouped ==
    /\ vocs = GroupedStore
    /\ db = [fillResultsOn([InitDb EXCEPT !.filters = createFilterOptions(vocs),
                                          !.index = [built |-> TRUE, store |-> vocs],
                                          !.initialized = TRUE]).db
               EXCEPT !.query = "bild"]
    /\ localStorage = <<>>
    /\ \E grouped \in Groupings :
           call = [NoCall EXCEPT !.op = "index.search", !.invoked = TRUE,
                                 !.term = db.query, !.grouped = grouped]

SearchAnswered ==
    /\ call.op = "index.search"
    /\ returns("search", "", "",
               searchAnswered(db, call.term, call.tag,
                              answerOf(db.index.store, call.grouped)))

NextGrouped == SearchAnswered

SpecGrouped == InitGrouped /\ [][NextGrouped]_vars

----------------------------------------------------------------------------
\* Pagination: the derived store paginatedResults

\* the index Array.prototype.slice starts or ends at: a negative argument
\* counts from the end of the array, and both are clamped to the array
relativeIndex(i, len) ==
    IF i < 0 THEN (IF len + i < 0 THEN 0 ELSE len + i)
    ELSE (IF i > len THEN len ELSE i)

\* Array.prototype.slice(start, end)
slice(arr, start, end) ==
    LET k == relativeIndex(start, Len(arr))
        final == relativeIndex(end, Len(arr))
    IN IF k >= final THEN <<>> ELSE SubSeq(arr, k + 1, final)

\* paginatedResults taking activePage as a page number counted from 1
paginatedResultsOneBased(d) ==
    LET startIndex == (d.activePage - 1) * d.resultsPerPage
        endIndex == startIndex + d.resultsPerPage
    IN slice(d.results, startIndex, endIndex)

\* the value of the derived store paginatedResults for the store value d
paginatedResults(d) ==
    LET startIndex == d.activePage * d.resultsPerPage
        endIndex == startIndex + d.resultsPerPage
    IN slice(d.results, startIndex, endIndex)

\* the updater of updatePagination
updatePaginationOn(d, direction) == [d EXCEPT !.activePage = d.activePage + direction]

\* a vocabulary of a long dataset
vocabulary(i) == [docA EXCEPT !.id = "https://w3id.org/kim/v" \o ToString(i)]

LongDataset(n) == [i \in 1..n |-> vocabulary(i)]

\* createIndex has returned on a dataset of up to MaxResults vocabularies
InitPages ==
    /\ \E n \in 0..MaxResults : vocs = LongDataset(n)
    /\ db = fillResultsOn([InitDb EXCEPT !.filters = createFilterOptions(vocs),
                                         !.index = [built |-> TRUE, store |-> vocs],
                                         !.initialized = TRUE]).db
    /\ localStorage = <<>>
    /\ call = [NoCall EXCEPT !.op = "createIndex"]

TurnPage ==
    \E direction \in {-1, 1} :
        /\ db.activePage + direction \in -MaxTurns..MaxTurns
        /\ returns("updatePagination", "", "", ran(updatePaginationOn(db, direction)))

NextPages == TurnPage

SpecPages == InitPages /\ [][NextPages]_vars

----------------------------------------------------------------------------
\* sort

\* the keys whose values are numbers; the values of the other keys are strings
NumericKeys == {"issued"}

\* the strings under the sort keys, in the order of String.prototype.localeCompare
Collation == <<"Begriff", "Bildung", "Schule">>

\* valA == null: the record has no value under key (null or undefined)
isNull(e, key) == key \notin DOMAIN e

\* String(valA).localeCompare(String(valB)): negative, 0 or positive
localeCompare(x, y) ==
    (CHOOSE i \in 1..Len(Collation) : Collation[i] = x)
        - (CHOOSE i \in 1..Len(Collation) : Collation[i] = y)

\* String.prototype.toLowerCase on the order argument
toLowerCase(order) ==
    IF order \in {"DESC", "desc"} THEN "desc"
    ELSE IF order \in {"ASC", "asc"} THEN "asc" ELSE order

\* the comparator sort hands to Array.prototype.sort; order is in lower case
compareFn(a, b, key, order) ==
    IF isNull(a, key) \/ isNull(b, key) THEN 0
    ELSE IF key \in NumericKeys
         THEN (IF order = "desc" THEN b[key] - a[key] ELSE a[key] - b[key])
         ELSE (IF order = "desc" THEN localeCompare(b[key], a[key])
                                 ELSE localeCompare(a[key], b[key]))

\* compareFn is a consistent comparator for the records of list: it divides
\* them into equivalence classes that are totally ordered
consistentComparator(list, key, order) ==
    \A a, b, c \in Range(list) :
        LET ab == compareFn(a, b, key, order)
            bc == compareFn(b, c, key, order)
            ac == compareFn(a, c, key, order)
        IN /\ (ab < 0) <=> (compareFn(b, a, key, order) > 0)
           /\ (ab = 0 /\ bc = 0) => ac = 0
           /\ (ab < 0 /\ bc < 0) => ac < 0
           /\ (ab > 0 /\ bc > 0) => ac > 0

\* x put into a sorted list behind every record that does not sort after it
RECURSIVE inserted(_, _, _, _)
inserted(sorted, x, key, order) ==
    IF Len(sorted) = 0 THEN <<x>>
    ELSE IF compareFn(sorted[Len(sorted)], x, key, order) <= 0 THEN Append(sorted, x)
    ELSE Append(inserted(SubSeq(sorted, 1, Len(sorted) - 1), x, key, order),
                sorted[Len(sorted)])

\* the stable sort of list under a consistent comparator
RECURSIVE stableSorted(_, _, _)
stableSorted(list, key, order) ==
    IF Len(list) = 0 THEN <<>>
    ELSE inserted(stableSorted(SubSeq(list, 1, Len(list) - 1), key, order),
                  list[Len(list)], key, order)

\* the orders of the records of list
rearrangements(list) ==
    IF Len(list) = 0 THEN {<<>>}
    ELSE {[i \in 1..Len(list) |-> list[f[i]]] : f \in Permutations(1..Len(list))}

\* What [...results].sort(compareFn) may return. Array.prototype.sort is
\* stable under a consistent comparator; under any other the order of the
\* result is implementation-defined
sorted(list, key, order) ==
    IF consistentComparator(list, key, order)
    THEN {stableSorted(list, key, order)}
    ELSE rearrangements(list)

\* sort(key, order): the store afterwards, for the outcome results of the sort
sortOn(d, key, order, results) ==
    updateResults([d EXCEPT !.sort = [key |-> key, order |-> toLowerCase(order)]], results)

\* sort returns
sort(key, order) ==
    \E results \in sorted(db.results, key, toLowerCase(order)) :
        /\ db' = sortOn(db, key, order, results)
        /\ returns("sort", key, order, ran(sortOn(db, key, order, results)))

\* The keys and orders sort is called with: name is a string of every
\* document, issued a number of some records
SortKeys == {"name", "issued"}

Orders == {"asc", "desc", "DESC"}

Sort == \E key \in SortKeys, order \in Orders : sort(key, order)

\* sort on an arbitrary result list: records with a number under issued, a
\* string under name, or neither
SortValues ==
    {[id |-> "r"], [id |-> "r", issued |-> 2019], [id |-> "r", issued |-> 2021],
     [id |-> "r", name |-> "Bildung"], [id |-> "r", name |-> "Schule"]}

\* the i-th record of a list, with the values of v
sortRecord(i, v) ==
    [k \in DOMAIN v |-> IF k = "id" THEN "https://w3id.org/kim/r" \o ToString(i) ELSE v[k]]

SortLists ==
    UNION {{[i \in 1..n |-> sortRecord(i, vs[i])] : vs \in [1..n -> SortValues]} :
              n \in 0..MaxSortLen}

InitSort ==
    /\ vocs = <<>>
    /\ \E list \in SortLists :
           db = [InitDb EXCEPT !.index = [built |-> TRUE, store |-> vocs],
                               !.initialized = TRUE, !.activePage = 0,
                               !.results = list]
    /\ localStorage = <<>>
    /\ call = [NoCall EXCEPT !.op = "search"]

SortOnce ==
    /\ call.op = "search"
    /\ Sort

NextSort == SortOnce

SpecSort == InitSort /\ [][NextSort]_vars

----------------------------------------------------------------------------
\* The selection state and the query engine without sort; sort, which
\* multiplies the result lists and stored sorts, joins the query engine in
\* SpecQuery and every exported function in SpecFrame
Next ==
    \/ ToggleSelected
    \/ ResetSelected
    \/ SetQuery
    \/ UpdatePagination
    \/ ResetFilters
    \/ FillResults
    \/ Search
    \/ HandleFilterSelect
    \/ CreateIndex

Spec == Init /\ [][Next]_vars

\* The query engine with sort: every exported function that writes the
\* query state
NextQuery ==
    \/ SetQuery
    \/ UpdatePagination
    \/ Sort
    \/ ResetFilters
    \/ FillResults
    \/ Search
    \/ HandleFilterSelect
    \/ CreateIndex

SpecQuery == Init /\ [][NextQuery]_vars

\* The selection state next to the query engine, on one dataset: the term
\* typed is "bild" or none and the facet values selected are those of about
TypeQuery == SetQuery /\ call'.val \in {"", "bild"}

SelectAbout == HandleFilterSelect /\ call'.key = "about"

InitFrame == Init /\ vocs = <<docC, docB, docA>>

NextFrame ==
    \/ ToggleSelected
    \/ ResetSelected
    \/ TypeQuery
    \/ UpdatePagination
    \/ Sort
    \/ ResetFilters
    \/ FillResults
    \/ Search
    \/ SelectAbout
    \/ CreateIndex

SpecFrame == InitFrame /\ [][NextFrame]_vars

----------------------------------------------------------------------------
\* Selection state: properties

SelectionOps == {"toggleSelected", "resetSelected"}

\* the string s is the persisted form of some listing of exactly the ids in S
representsSet(s, dbKey, S) ==
    \E list \in Arrangements(S) : Range(list) = S /\ s = stringifyUpdated(dbKey, list)

\* C1: two consecutive toggleSelected(k, v) calls that return leave the
\* in-memory set for k equal to the set before the first call, and the value
\* then stored under 'eduvocs:k' represents that same set (the empty set when
\* it started empty).
C1_ToggleTwiceRestores ==
    (call.op = "toggleSelected" /\ call.twice) =>
        /\ Range(db[call.key]) = Range(call.origin)
        /\ storageKey(call.key) \in DOMAIN localStorage
        /\ representsSet(localStorage[storageKey(call.key)], call.key, Range(call.origin))

\* a second toggle of a value has returned, from a set that held another id
\* as well as the toggled one
C1_Witness ==
    /\ call.op = "toggleSelected" /\ call.twice
    /\ includes(call.origin, call.val)
    /\ Len(call.origin) = 2

\* a second toggle of a value has returned, from the empty set
C1_WitnessFromEmpty ==
    /\ call.op = "toggleSelected" /\ call.twice
    /\ call.origin = <<>> /\ db[call.key] = <<>>

\* C2 (as claimed): when localStorage.setItem throws during toggleSelected(k, v)
\* or resetSelected(k), the in-memory set for k reflects the mutation after
\* the call.
C2_FailedWriteKeepsMutation ==
    (call.op \in SelectionOps /\ call.threw # "") =>
        db[call.key] = (IF call.op = "toggleSelected"
                        THEN toggled(call.before, call.val) ELSE <<>>)

\* C3 (as claimed): after a toggleSelected or resetSelected that returned,
\* the value stored under 'eduvocs:k' is the bare JSON array of the in-memory
\* ids of k.
C3_PersistsBareArray ==
    (call.op \in SelectionOps /\ call.threw = "") =>
        /\ storageKey(call.key) \in DOMAIN localStorage
        /\ localStorage[storageKey(call.key)] = stringifyArray(db[call.key])

\* C3 (amended): after a toggleSelected or resetSelected that returned, the
\* value stored under 'eduvocs:k' is the JSON object with the one property k
\* whose value is the JSON array of exactly the in-memory ids of k, in the
\* same order.
C3_PersistsWholeSetUnderKey ==
    (call.op \in SelectionOps /\ call.threw = "") =>
        /\ storageKey(call.key) \in DOMAIN localStorage
        /\ localStorage[storageKey(call.key)] =
               "{" \o quote(call.key) \o ":" \o stringifyArray(db[call.key]) \o "}"

\* a toggle has returned and left two ids in memory
C3_Witness ==
    /\ call.op = "toggleSelected" /\ call.threw = ""
    /\ Len(db[call.key]) = 2

\* C4: from the initial state, after any sequence of toggleSelected and
\* resetSelected calls, the in-memory set of a selection key holds no value
\* more than once.
C4_NoDuplicateSelection ==
    \A dbKey \in SelectionKeys : NoDuplicates(db[dbKey])

\* a toggle has removed one of two selected ids
C4_Witness ==
    /\ call.op = "toggleSelected" /\ call.threw = ""
    /\ Len(call.before) = 2 /\ Len(db[call.key]) = 1

----------------------------------------------------------------------------
\* Query engine: properties

SearchOps == {"search", "handleFilterSelect"}

noFacetSelected == \A k \in Range(filterKeys) : db.selectedFilters[k] = <<>>

\* the position of the first occurrence of x in s
firstIndex(s, x) == CHOOSE i \in 1..Len(s) : s[i] = x /\ \A j \in 1..(i - 1) : s[j] # x

\* C5: on a built index, search with an empty query term and no selected
\* facet value produces the result list fillResults produces, and does not
\* call the index's search.
C5_EmptySearchIsFillResults ==
    (call.op \in SearchOps /\ db.index.built /\ db.query = "" /\ noFacetSelected) =>
        /\ call.threw = ""
        /\ ~call.invoked
        /\ db.results = fillResultsOn(db).db.results
        /\ \A e \in Range(db.index.store) :
               includes(e.type, VocabularyMarker) <=> includes(db.results, e)

\* search has run with no term and no facet on a store that holds both a
\* vocabulary and a document that is none
C5_Witness ==
    /\ call.op = "search" /\ db.index.built /\ db.query = "" /\ noFacetSelected
    /\ Len(db.results) > 0 /\ Len(db.results) < Len(db.index.store)

\* C6: fillResults sets the result list to exactly the stored documents whose
\* type holds the marker: each of them once, no other document, in the
\* order of the document store.
C6_FillResultsListsVocabularies ==
    (call.op = "fillResults" /\ call.threw = "") =>
        LET store == db.index.store
            results == db.results
        IN /\ \A i \in 1..Len(results) :
                  includes(store, results[i]) /\ includes(results[i].type, VocabularyMarker)
           /\ \A e \in Range(store) :
                  includes(e.type, VocabularyMarker) =>
                      Cardinality({i \in 1..Len(results) : results[i] = e}) = 1
           /\ \A i, j \in 1..Len(results) :
                  i < j => firstIndex(store, results[i]) < firstIndex(store, results[j])

\* fillResults has listed two vocabularies of a store that holds a third
\* document
C6_Witness ==
    /\ call.op = "fillResults" /\ call.threw = ""
    /\ Len(db.results) = 2 /\ Len(db.index.store) = 3

\* C7: after search, for any grouped hits returned by the index, each document
\* id appears at most once in the result list, every id present in some
\* field group appears in it (with its stored document, and no other id
\* does), and the ids are ordered by their first occurrence in the flattened
\* sequence of the groups.
C7_ResultsDeduplicatedInFirstOccurrenceOrder ==
    (call.op \in SearchOps /\ call.invoked) =>
        LET hits == flat(call.grouped)
            ids == [i \in 1..Len(db.results) |-> db.results[i].id]
        IN /\ NoDuplicates(ids)
           /\ Range(hits) = Range(ids)
           /\ \A i \in 1..Len(ids) : db.results[i] = docOf(db.index.store, ids[i])
           /\ \A i, j \in 1..Len(ids) :
                  i < j => firstIndex(hits, ids[i]) < firstIndex(hits, ids[j])

\* search has merged two groups in which an id of the first group comes back
\* in the second, ahead of an id the first group does not hold
C7_Witness ==
    /\ call.op \in SearchOps /\ call.invoked
    /\ Len(call.grouped) = 2
    /\ Len(call.grouped[1]) = 2 /\ Len(call.grouped[2]) = 2
    /\ call.grouped[2][1] = call.grouped[1][2]
    /\ ~includes(call.grouped[1], call.grouped[2][2])
    /\ Len(db.results) = 3

\* C8: when at least one facet value is selected and the index returns no
\* hit, search sets the result list to the empty list: no error, and no
\* fallback to the unfiltered list.
C8_NoHitIsEmptyList ==
    (call.op \in SearchOps /\ call.invoked /\ flat(call.grouped) = <<>> /\ ~noFacetSelected) =>
        /\ call.threw = ""
        /\ db.results = <<>>

\* search found nothing under a selected facet value, on a store whose
\* unfiltered list is not empty
C8_Witness ==
    /\ call.op \in SearchOps /\ call.invoked /\ flat(call.grouped) = <<>>
    /\ ~noFacetSelected
    /\ fillResultsOn(db).db.results # <<>>

\* C9 (as claimed): search never calls the index's search with an empty term.
C9_NeverSearchesIndexWithEmptyTerm ==
    call.invoked => call.term # ""

\* the documents index.search finds for the term under the one value v
foundUnder(term, v) ==
    Range(searchResults(indexSearch(db.index.store, term, <<v>>)))

\* C10: the tag constraint search passes to the index is the flat list of the
\* selected values of all facet keys, key after key; every document the index
\* finds for the term under any one selected value alone, whichever key it
\* was selected under, is in the result list.
C10_TagsAreFlatUnion ==
    (call.op \in SearchOps /\ call.invoked) =>
        /\ call.tag = db.selectedFilters.about \o db.selectedFilters.educationalLevel
                          \o db.selectedFilters.P126
        /\ \A k \in Range(filterKeys) : \A v \in Range(db.selectedFilters[k]) :
               foundUnder(call.term, v) \subseteq Range(db.results)

\* search ran with values selected under two different keys, and one of them
\* alone finds a document the other alone does not
C10_Witness ==
    /\ call.op \in SearchOps /\ call.invoked
    /\ \E k1, k2 \in Range(filterKeys) :
           /\ k1 # k2
           /\ \E v1 \in Range(db.selectedFilters[k1]), v2 \in Range(db.selectedFilters[k2]) :
                  foundUnder(call.term, v1) \ foundUnder(call.term, v2) # {}

----------------------------------------------------------------------------
\* Pagination: properties

\* C11: on a page activePage >= 0, paginatedResults is the empty list when
\* activePage * resultsPerPage >= results.length; otherwise it is the
\* contiguous slice of results from index activePage * resultsPerPage, up to
\* the end of results and of length at most resultsPerPage.
C11_PageIsSliceOfResults ==
    db.activePage >= 0 =>
        LET startIndex == db.activePage * db.resultsPerPage
            rest == Len(db.results) - startIndex
            page == paginatedResults(db)
        IN IF rest <= 0 THEN page = <<>>
           ELSE /\ Len(page) = (IF rest < db.resultsPerPage THEN rest ELSE db.resultsPerPage)
                /\ \A i \in 1..Len(page) : page[i] = db.results[startIndex + i]

\* the second page of a result list that fills the first and part of the second
C11_Witness ==
    /\ db.activePage = 1
    /\ Len(db.results) > db.resultsPerPage
    /\ Len(paginatedResults(db)) \in 1..(db.resultsPerPage - 1)

\* C12 (as claimed): in every state reached by updatePagination calls, when
\* activePage is negative or at or past the end of the results,
\* paginatedResults is the empty list.
C12_OutOfRangePageIsEmpty ==
    (db.activePage < 0 \/ db.activePage * db.resultsPerPage >= Len(db.results)) =>
        paginatedResults(db) = <<>>

----------------------------------------------------------------------------
\* sort: properties

\* the position of the record e in list (the records of a list differ in id)
positionIn(list, e) == CHOOSE i \in 1..Len(list) : list[i] = e

\* a and b stand in results in the order they stood in before
keepOrder(a, b, before, results) ==
    (positionIn(before, a) < positionIn(before, b))
        <=> (positionIn(results, a) < positionIn(results, b))

isRearrangement(before, results) ==
    /\ Len(results) = Len(before)
    /\ \A e \in Range(before) : \E i \in 1..Len(results) : results[i] = e

\* C13 (as claimed): sort(key, order) leaves the result list a permutation of
\* the previous one, and any two records whose values under key are equal
\* keep their relative order.
C13_SortIsStable ==
    [][call'.op = "sort" =>
        /\ isRearrangement(db.results, db'.results)
        /\ \A a, b \in Range(db.results) :
               (/\ ~isNull(a, call'.key) /\ ~isNull(b, call'.key)
                /\ a[call'.key] = b[call'.key])
                   => keepOrder(a, b, db.results, db'.results)]_vars

\* C14 (as claimed): after sort(key, order), every pair of records of which
\* at least one has no value under key keeps its relative order, and no
\* error is raised.
C14_NullPairsKeepOrder ==
    [][call'.op = "sort" =>
        /\ call'.threw = ""
        /\ \A a, b \in Range(db.results) :
               (isNull(a, call'.key) \/ isNull(b, call'.key))
                   => keepOrder(a, b, db.results, db'.results)]_vars

----------------------------------------------------------------------------
\* Query state: properties

\* C15: after resetFilters on a built index the query is empty, every facet
\* key has an empty selection, the sort key is empty with order 'asc', the
\* result list is the list of fillResults, and activePage is 0.
C15_ResetFiltersRestoresDefaults ==
    (call.op = "resetFilters" /\ db.index.built) =>
        /\ call.threw = ""
        /\ db.query = ""
        /\ \A key \in Range(filterKeys) : db.selectedFilters[key] = <<>>
        /\ db.sort = [key |-> "", order |-> "asc"]
        /\ db.results = vocabularies(db.index.store)
        /\ db.activePage = 0

\* resetFilters has returned on a store that holds two vocabularies and a
\* document that is none
C15_Witness ==
    /\ call.op = "resetFilters" /\ db.index.built /\ call.threw = ""
    /\ Len(db.results) = 2 /\ Len(db.index.store) = 3

\* the operations that replace the result list
ReplacingOps ==
    {"fillResults", "search", "sort", "handleFilterSelect", "resetFilters", "createIndex"}

\* C16: every operation that replaces the result list leaves activePage 0
\* when it returns, whatever activePage was before, and only
\* updatePagination moves activePage to a value other than 0.
C16_ReplacingResultsResetsPage ==
    [][/\ (call'.op \in ReplacingOps /\ call'.threw = "") => db'.activePage = 0
       /\ (db'.activePage # db.activePage /\ db'.activePage # 0)
              => call'.op = "updatePagination"]_vars

\* sort has returned with a result list of two records
C16_Witness ==
    /\ call.op = "sort" /\ call.threw = ""
    /\ db.activePage = 0 /\ Len(db.results) = 2

\* C17: handleFilterSelect(key, val) removes val from the selection of key if
\* it is there and appends it if not, leaves the selection of every other
\* facet key unchanged, no selection holds a value twice, and the result
\* list is the one search computes from the query and the new selection.
C17_FilterSelectTogglesOneKey ==
    [][call'.op = "handleFilterSelect" =>
        LET key == call'.key
            val == call'.val
            before == db.selectedFilters[key]
            after == db'.selectedFilters[key]
        IN /\ includes(before, val) =>
                  (/\ ~includes(after, val)
                   /\ after = SelectSeq(before, LAMBDA e : e # val))
           /\ ~includes(before, val) => after = Append(before, val)
           /\ \A other \in Range(filterKeys) \ {key} :
                  db'.selectedFilters[other] = db.selectedFilters[other]
           /\ \A k \in Range(filterKeys) : NoDuplicates(db'.selectedFilters[k])
           /\ db'.query = db.query
           /\ call'.threw = "" =>
                  (/\ db'.results = searchOn(db').db.results
                   /\ (unfiltered(db'.query, Tags(db'.selectedFilters))
                          => db'.results = vocabularies(db'.index.store)))]_vars

\* handleFilterSelect has taken a value out of a selection that keeps another
\* value, while another facet key has a selection as well
C17_Witness ==
    /\ call.op = "handleFilterSelect" /\ call.threw = ""
    /\ ~includes(db.selectedFilters[call.key], call.val)
    /\ db.selectedFilters[call.key] # <<>>
    /\ \E other \in Range(filterKeys) \ {call.key} : db.selectedFilters[other] # <<>>

\* the operations of the query engine named by the frame condition
QueryOps ==
    {"search", "handleFilterSelect", "sort", "updatePagination", "fillResults",
     "resetFilters"}

\* C18: toggleSelected and resetSelected on selectedVocabs leave query,
\* selectedFilters, sort, results and activePage unchanged; search,
\* handleFilterSelect, sort, updatePagination, fillResults and resetFilters
\* leave selectedVocabs and its persisted entry unchanged.
C18_SelectionAndQueryStateIndependent ==
    [][/\ call'.op \in SelectionOps =>
              /\ db'.query = db.query
              /\ db'.selectedFilters = db.selectedFilters
              /\ db'.sort = db.sort
              /\ db'.results = db.results
              /\ db'.activePage = db.activePage
       /\ call'.op \in QueryOps =>
              /\ db'.selectedVocabs = db.selectedVocabs
              /\ localStorage' = localStorage]_vars

\* a vocabulary has been selected and persisted while a term is typed, a facet
\* value selected, the results sorted and the page turned
C18_Witness ==
    /\ call.op = "toggleSelected" /\ call.threw = ""
    /\ db.selectedVocabs # <<>> /\ DOMAIN localStorage # {}
    /\ db.query # "" /\ db.selectedFilters.about # <<>>
    /\ db.sort.key # "" /\ db.results # <<>> /\ db.activePage = 1

\* the records of list that have a value under key stand in the order of
\* key and order
ordered(list, key, order) ==
    \A i, j \in 1..Len(list) :
        (i < j /\ ~isNull(list[i], key) /\ ~isNull(list[j], key))
            => compareFn(list[i], list[j], key, order) <= 0

\* C19 (as claimed): after sort, search, handleFilterSelect, fillResults or
\* resetFilters, if the stored sort key is not empty the result list is
\* ordered by the stored sort key and order.
C19_ResultsFollowStoredSort ==
    (call.op \in {"sort", "search", "handleFilterSelect", "fillResults", "resetFilters"}
        /\ db.sort.key # "")
        => ordered(db.results, db.sort.key, db.sort.order)

\* C20 (as claimed): once the index is built, every document of the result
\* list has the vocabulary marker in its type, whether fillResults or search
\* produced the list.
C20_ResultsAreVocabularies ==
    db.index.built =>
        \A i \in 1..Len(db.results) : includes(db.results[i].type, VocabularyMarker)

====
